---- MODULE Spec2Model ----
(***************************************************************************)
(* A model of pygeoif/geometry.py: the geometry classes, their             *)
(* constructors and coords setters, the __geo_interface__ mapping, the     *)
(* as_shape factory, and the WKT text written by to_wkt and read by        *)
(* from_wkt.                                                               *)
(*                                                                         *)
(* A Python value is a record with the same fields whatever its kind k, a  *)
(* field that does not apply being left blank:                             *)
(*   k = "num"    n the number (int and float compare by value in Python,  *)
(*                so 1 and 1.0 are the same value)                         *)
(*   k = "str"    s the characters                                         *)
(*   k = "list" / "tuple"    v the sequence of elements                    *)
(*   k = "dict"   a __geo_interface__ mapping: s its 'type' and            *)
(*                coordinates[1] its 'coordinates'                         *)
(*   k = "obj"    an instance: s its class, and coordinates[1],            *)
(*                exterior[1], interiors[1], geoms[1] its attributes       *)
(*                _coordinates, _exterior, _interiors, _geoms              *)
(*   k = "exc"    an exception INSTANCE held as a value, s its class       *)
(*   k = "None"                                                            *)
(* A call's outcome is [exc, val]: exc = "none" and the value returned, or *)
(* the class of the exception raised.                                      *)
(***************************************************************************)
EXTENDS Integers, Sequences, FiniteSets, TLC

VARIABLES obj, last

vars == <<obj, last>>

\* ---------------------------------------------------------------- bounds
\* Numbers used as coordinate values are 0..MaxVal.
MaxVal == 1
\* Point is called with 0..MaxArgs positional values, and a single sequence
\* argument has 0..MaxArgs elements.
MaxArgs == 4
\* A raw coordinate sequence given to a line, ring or multipoint has
\* 0..MaxLen elements.
MaxLen == 3
\* A holes argument lists 0..MaxHoles rings.
MaxHoles == 1

\* ---------------------------------------------------------- Python values
None ==
  [k |-> "None", n |-> 0, s |-> "", v |-> <<>>, coordinates |-> <<>>,
   exterior |-> <<>>, interiors |-> <<>>, geoms |-> <<>>]
Num(n) == [None EXCEPT !.k = "num", !.n = n]
Str(s) == [None EXCEPT !.k = "str", !.s = s]
List(s) == [None EXCEPT !.k = "list", !.v = s]
Tuple(s) == [None EXCEPT !.k = "tuple", !.v = s]
Dict(t, c) == [None EXCEPT !.k = "dict", !.s = t, !.coordinates = <<c>>]
ExcValue(e) == [None EXCEPT !.k = "exc", !.s = e]

Ok(x) == [exc |-> "none", val |-> x]
Raise(e) == [exc |-> e, val |-> None]
IsOk(r) == r.exc = "none"

\* isinstance(x, (list, tuple))
IsSeq(x) == x.k \in {"list", "tuple"}

\* bool(x), for the values the code tests
Truthy(x) ==
  CASE x.k \in {"list", "tuple"} -> Len(x.v) > 0
    [] x.k = "None" -> FALSE
    [] x.k = "num" -> x.n # 0
    [] x.k = "str" -> x.s # ""
    [] OTHER -> TRUE

\* s.find(c) for a one-character c: the 0-based index of the first
\* occurrence in s, -1 when there is none.
RECURSIVE FindFrom(_, _, _)
FindFrom(s, c, i) ==
  IF i > Len(s) THEN -1
  ELSE IF SubSeq(s, i, i) = c THEN i - 1
  ELSE FindFrom(s, c, i + 1)

Find(s, c) == FindFrom(s, c, 1)

\* The number a string of decimal digits denotes, counted on from acc; -1
\* when a character is no digit.
RECURSIVE DigitsValue(_, _)
DigitsValue(s, acc) ==
  IF s = "" THEN acc
  ELSE IF \E d \in 0..9 : ToString(d) = Head(s)
  THEN DigitsValue(Tail(s), 10 * acc + (CHOOSE d \in 0..9 : ToString(d) = Head(s)))
  ELSE -1

\* The number a numeral with a decimal point at 0-based index dot denotes.
\* The numbers of the model are whole, so the digits after the point are
\* zeros: "1.0", "1." and "1.00" denote 1.
Decimal(s, dot) ==
  IF Len(s) = 1 THEN -1
  ELSE IF DigitsValue(SubSeq(s, dot + 2, Len(s)), 0) # 0 THEN -1
  ELSE DigitsValue(SubSeq(s, 1, dot), 0)

\* The number a numeric string denotes; -1 for a string float() rejects.
\* The strings of the model are made of digits, points and characters no
\* numeral holds; they carry no sign, exponent or surrounding blank.
StrNumber(s) ==
  IF s = "" THEN -1
  ELSE IF Find(s, ".") = -1 THEN DigitsValue(s, 0)
  ELSE Decimal(s, Find(s, "."))

\* float(x)
PyFloat(x) ==
  CASE x.k = "num" -> Ok(Num(x.n))
    [] x.k = "str" -> IF StrNumber(x.s) >= 0 THEN Ok(Num(StrNumber(x.s)))
                      ELSE Raise("ValueError")
    [] OTHER -> Raise("TypeError")

\* [x for x in s]: the elements kept as given, the coercion left out.
FloatAllUncoerced(s) == Ok(List(s))

\* [float(x) for x in s]: the first element float() rejects raises.
FloatAll(s) ==
  LET bad == {i \in 1..Len(s) : ~IsOk(PyFloat(s[i]))} IN
  IF bad # {}
  THEN Raise(PyFloat(s[CHOOSE i \in bad : \A j \in bad : i <= j]).exc)
  ELSE Ok(List([i \in 1..Len(s) |-> PyFloat(s[i]).val]))

\* ------------------------------------------------------------- instances
\* The class attributes _coordinates, _exterior, _interiors, _geoms are None
\* until __init__ assigns them.
Instance(cls, coordinates, exterior, interiors, geoms) ==
  [None EXCEPT !.k = "obj", !.s = cls, !.coordinates = <<coordinates>>,
               !.exterior = <<exterior>>, !.interiors = <<interiors>>,
               !.geoms = <<geoms>>]

FeatureInstance(cls, coordinates) == Instance(cls, coordinates, None, None, None)

\* hasattr(x, '__geo_interface__'): every class of the module has the property.
HasGeoInterface(x) == x.k = "obj"

\* Point.coords, LineString.coords: tuple(self._coordinates)
Coords(o) == Tuple(o.coordinates[1].v)

\* LinearRing.coords (getter)
RingCoords(o) ==
  LET c == o.coordinates[1].v IN
  IF Len(c) = 0 THEN Raise("IndexError")
  ELSE IF c[1] = c[Len(c)] THEN Ok(Tuple(c))
  ELSE Raise("ValueError")

\* _Feature.__geo_interface__
FeatureGeoInterface(o) ==
  IF o.s # "" /\ Truthy(o.coordinates[1])
  THEN Dict(o.s, Tuple(o.coordinates[1].v))
  ELSE None

\* Polygon.__geo_interface__ ; the rings of a constructed Polygon are closed,
\* so reading their coords does not raise.
PolygonGeoInterface(o) ==
  IF Truthy(o.interiors[1])
  THEN Dict(o.s,
            Tuple(<<RingCoords(o.exterior[1]).val>> \o
                  [i \in 1..Len(o.interiors[1].v) |->
                     RingCoords(o.interiors[1].v[i]).val]))
  ELSE IF Truthy(o.exterior[1])
  THEN Dict(o.s, Tuple(<<RingCoords(o.exterior[1]).val>>))
  ELSE None

\* MultiPoint.__geo_interface__
MultiPointGeoInterface(o) ==
  Dict(o.s,
       Tuple([i \in 1..Len(o.geoms[1].v) |-> Coords(o.geoms[1].v[i]).v[1]]))

\* x.__geo_interface__ for an instance x
GeoInterface(x) ==
  CASE x.s = "Polygon" -> PolygonGeoInterface(x)
    [] x.s = "MultiPoint" -> MultiPointGeoInterface(x)
    [] OTHER -> FeatureGeoInterface(x)

\* gi['type'] == t ; subscripting None raises TypeError before the comparison
GiIsNone(gi) == gi.k # "dict"

\* ------------------------------------------------------------------ Point
\* Point.__init__, one argument with the __geo_interface__ gi
PointFromGeoInterface(gi) ==
  IF GiIsNone(gi) THEN Raise("TypeError")
  ELSE IF gi.s = "Point"
  THEN Ok(FeatureInstance("Point", List(gi.coordinates[1].v)))
  ELSE Raise("TypeError")

\* coords = [float(x) for x in ...]; self._coordinates = coords
PointFromFloats(coords) ==
  IF IsOk(coords) THEN Ok(FeatureInstance("Point", coords.val)) ELSE coords

\* Point.__init__(*args); args is the sequence of positional values.
PointInit(args) ==
  IF Len(args) = 1 THEN
    IF HasGeoInterface(args[1]) THEN PointFromGeoInterface(GeoInterface(args[1]))
    ELSE IF IsSeq(args[1]) THEN
      IF 2 <= Len(args[1].v) /\ Len(args[1].v) <= 3
      THEN PointFromFloats(FloatAll(args[1].v))
      ELSE Raise("TypeError")
    ELSE Raise("TypeError")
  ELSE IF 2 <= Len(args) /\ Len(args) <= 3 THEN PointFromFloats(FloatAll(args))
  ELSE Raise("ValueError")

\* self._coordinates = coords at the end of a coords setter, reached only
\* when nothing raised before: the outcome and the instance afterwards.
AssignCoords(self, coords) ==
  IF IsOk(coords)
  THEN [exc |-> "none", self |-> FeatureInstance(self.s, coords.val)]
  ELSE [exc |-> coords.exc, self |-> self]

\* Point.coords setter
PointSetCoords(self, coordinates) ==
  IF IsSeq(coordinates) THEN
    IF 2 <= Len(coordinates.v) /\ Len(coordinates.v) <= 3
    THEN AssignCoords(self, FloatAll(coordinates.v))
    ELSE [exc |-> "TypeError", self |-> self]
  ELSE [exc |-> "TypeError", self |-> self]

\* ------------------------------------------------------------- LineString
\* The local l2 before its first assignment.
Unset == -1

\* The loop of LineString.__init__ and of the coords setter:
\*   for coord in coordinates:
\*       p = Point(coord)                       (LineLoop)
\*       l = len(p.coords)                      (LineStep, p the outcome)
\*       if coords:
\*           if l != l2: raise ValueError
\*       l2 = l
\*       coords.append(tuple(p.coords))
\* Reading l2 while it is unset raises UnboundLocalError.
RECURSIVE LineLoop(_, _, _, _)

\* The body of the loop with l compared to l2 on every turn, the first one
\* included: the test "if coords:" left out.
LineStepUnguarded(coordinates, i, coords, l2, p) ==
  IF ~IsOk(p) THEN p
  ELSE IF l2 = Unset THEN Raise("UnboundLocalError")
  ELSE IF Len(Coords(p.val).v) # l2 THEN Raise("ValueError")
  ELSE LineLoop(coordinates, i + 1, Append(coords, Coords(p.val)),
                Len(Coords(p.val).v))

LineStep(coordinates, i, coords, l2, p) ==
  IF ~IsOk(p) THEN p
  ELSE IF coords # <<>> /\ l2 = Unset THEN Raise("UnboundLocalError")
  ELSE IF coords # <<>> /\ Len(Coords(p.val).v) # l2 THEN Raise("ValueError")
  ELSE LineLoop(coordinates, i + 1, Append(coords, Coords(p.val)),
                Len(Coords(p.val).v))

LineLoop(coordinates, i, coords, l2) ==
  IF i > Len(coordinates) THEN Ok(List(coords))
  ELSE LineStep(coordinates, i, coords, l2, PointInit(<<coordinates[i]>>))

\* LineString.__init__, coordinates with the __geo_interface__ gi
LineFromGeoInterface(cls, gi) ==
  IF GiIsNone(gi) THEN Raise("TypeError")
  ELSE IF gi.s = "LineString" \/ gi.s = "LinearRing"
  THEN Ok(FeatureInstance(cls, gi.coordinates[1]))
  ELSE IF gi.s = "Polygon" THEN Raise("ValueError")
  ELSE Raise("NotImplementedError")

\* self._coordinates = coords after the loop of LineString.__init__
LineFromCoords(cls, coords) ==
  IF IsOk(coords) THEN Ok(FeatureInstance(cls, coords.val)) ELSE coords

\* LineString.__init__(coordinates), run for an instance of class cls
LineStringInit(cls, coordinates) ==
  IF HasGeoInterface(coordinates)
  THEN LineFromGeoInterface(cls, GeoInterface(coordinates))
  ELSE IF IsSeq(coordinates)
  THEN LineFromCoords(cls, LineLoop(coordinates.v, 1, <<>>, Unset))
  ELSE Raise("ValueError")

\* LineString.coords setter
LineStringSetCoords(self, coordinates) ==
  IF IsSeq(coordinates)
  THEN AssignCoords(self, LineLoop(coordinates.v, 1, <<>>, Unset))
  ELSE [exc |-> "ValueError", self |-> self]

\* ------------------------------------------------------------- LinearRing
\* if self._coordinates[0] != self._coordinates[-1]:
\*     self._coordinates.append(self._coordinates[0])
\* on the instance self: indexing an empty sequence raises IndexError, and a
\* tuple has no append.
CloseRing(self) ==
  IF Len(self.coordinates[1].v) = 0 THEN [exc |-> "IndexError", self |-> self]
  ELSE IF self.coordinates[1].v[1] # self.coordinates[1].v[Len(self.coordinates[1].v)]
  THEN
    IF self.coordinates[1].k = "list"
    THEN [exc |-> "none",
          self |-> FeatureInstance(self.s,
                     List(Append(self.coordinates[1].v, self.coordinates[1].v[1])))]
    ELSE [exc |-> "AttributeError", self |-> self]
  ELSE [exc |-> "none", self |-> self]

\* The outcome of LinearRing.__init__ from that of its closing statement.
RingClosed(closed) ==
  IF closed.exc = "none" THEN Ok(closed.self) ELSE Raise(closed.exc)

\* LinearRing.__init__ after super().__init__, whose outcome is super.
RingAfterInit(super) ==
  IF ~IsOk(super) THEN super ELSE RingClosed(CloseRing(super.val))

\* LinearRing.__init__(coordinates)
LinearRingInit(coordinates) ==
  RingAfterInit(LineStringInit("LinearRing", coordinates))

\* LinearRing.coords setter after LineString.coords.fset, whose outcome is set.
RingAfterSet(set) ==
  IF set.exc # "none" THEN set ELSE CloseRing(set.self)

\* LinearRing.coords setter
LinearRingSetCoords(self, coordinates) ==
  RingAfterSet(LineStringSetCoords(self, coordinates))

\* ---------------------------------------------------------------- Polygon
\* for hole in items: self._interiors.append(LinearRing(hole))
RECURSIVE RingsFrom(_, _, _)

RingsStep(items, i, acc, ring) ==
  IF ~IsOk(ring) THEN ring ELSE RingsFrom(items, i + 1, Append(acc, ring.val))

RingsFrom(items, i, acc) ==
  IF i > Len(items) THEN Ok(List(acc))
  ELSE RingsStep(items, i, acc, LinearRingInit(items[i]))

\* A hole of the holes argument that has the __geo_interface__ gi.
HoleFromGeoInterface(hole, gi) ==
  IF GiIsNone(gi) THEN Raise("TypeError")
  ELSE IF gi.s = "LinearRing" THEN LinearRingInit(hole)
  ELSE Raise("NotImplementedError")

\* The body of the loop over holes: the ring to append, None when the hole
\* is neither a mapping object nor a list or tuple and is passed over.
HoleRing(hole) ==
  IF HasGeoInterface(hole) THEN HoleFromGeoInterface(hole, GeoInterface(hole))
  ELSE IF IsSeq(hole) THEN LinearRingInit(hole)
  ELSE Ok(None)

\* for hole in holes: ... self._interiors.append(LinearRing(hole))
RECURSIVE HolesLoop(_, _, _)

HolesStep(holes, i, acc, ring) ==
  IF ~IsOk(ring) THEN ring
  ELSE HolesLoop(holes, i + 1, IF ring.val = None THEN acc ELSE Append(acc, ring.val))

HolesLoop(holes, i, acc) ==
  IF i > Len(holes) THEN Ok(List(acc))
  ELSE HolesStep(holes, i, acc, HoleRing(holes[i]))

\* The first part of Polygon.__init__: self._interiors from holes.
PolygonHoles(holes) ==
  IF Truthy(holes) THEN
    IF IsSeq(holes) THEN HolesLoop(holes.v, 1, <<>>)
    ELSE Raise("TypeError")
  ELSE Ok(List(<<>>))

PolygonInstance(exterior, interiors) ==
  Instance("Polygon", None, exterior, interiors, None)

\* The instance once self._exterior, then self._interiors, are assigned; the
\* exterior is built first, so its exception comes first.
PolygonOf(exterior, interiors) ==
  IF ~IsOk(exterior) THEN exterior
  ELSE IF ~IsOk(interiors) THEN interiors
  ELSE Ok(PolygonInstance(exterior.val, interiors.val))

\* Polygon.__init__, shell with the __geo_interface__ gi; interiors is
\* self._interiors as built from holes.
ShellFromGeoInterface(shell, interiors, gi) ==
  IF GiIsNone(gi) THEN Raise("TypeError")
  ELSE IF gi.s = "LinearRing"
  THEN PolygonOf(LinearRingInit(shell), Ok(interiors))
  ELSE IF gi.s = "Polygon"
  THEN PolygonOf(LinearRingInit(gi.coordinates[1].v[1]),
                 IF Len(gi.coordinates[1].v) > 1
                 THEN RingsFrom(Tail(gi.coordinates[1].v), 1, <<>>)
                 ELSE Ok(interiors))
  ELSE Raise("NotImplementedError")

\* for hole in shell[1]: self._interiors.append(LinearRing(hole))
PairedHoles(shell, interiors) ==
  IF Len(shell.v) < 2 THEN Raise("IndexError")
  ELSE IF ~IsSeq(shell.v[2]) THEN Raise("TypeError")
  ELSE RingsFrom(shell.v[2].v, 1, interiors.v)

\* The second part of Polygon.__init__: the shell, given the interiors built
\* from holes.
PolygonShell(shell, interiors) ==
  IF HasGeoInterface(shell)
  THEN ShellFromGeoInterface(shell, interiors, GeoInterface(shell))
  ELSE IF IsSeq(shell) THEN
    IF Len(shell.v) = 0 THEN Raise("IndexError")
    ELSE IF ~IsSeq(shell.v[1]) THEN Raise("AssertionError")
    ELSE IF Len(shell.v[1].v) = 0 THEN Raise("IndexError")
    ELSE IF IsSeq(shell.v[1].v[1])
    THEN PolygonOf(LinearRingInit(shell.v[1]), PairedHoles(shell, interiors))
    ELSE PolygonOf(LinearRingInit(shell), Ok(interiors))
  ELSE Raise("ValueError")

\* Polygon.__init__ after its first part, whose outcome is interiors.
ShellAfterHoles(shell, interiors) ==
  IF ~IsOk(interiors) THEN interiors ELSE PolygonShell(shell, interiors.val)

\* Polygon.__init__(shell, holes=None)
PolygonInit(shell, holes) == ShellAfterHoles(shell, PolygonHoles(holes))

\* ------------------------------------------------------------- MultiPoint
\* self._geoms.append(p), p the outcome of a Point call
AppendGeom(geoms, p) ==
  IF ~IsOk(p) THEN p ELSE Ok(List(Append(geoms, p.val)))

\* for coord in coords: p = Point(coord); self._geoms.append(p)
RECURSIVE PointsFrom(_, _, _)

PointsStep(coords, i, more) ==
  IF ~IsOk(more) THEN more ELSE PointsFrom(coords, i + 1, more.val.v)

PointsFrom(coords, i, geoms) ==
  IF i > Len(coords) THEN Ok(List(geoms))
  ELSE PointsStep(coords, i, AppendGeom(geoms, PointInit(<<coords[i]>>)))

\* The two loops of the Polygon branch of _from_geo_interface, over
\* p.exterior and then p.interiors: the vertices of every ring of rings,
\* ring after ring.  coords is the outcome of reading ring.coords.
RECURSIVE RingsPoints(_, _, _)

RingsPointsNext(rings, i, more) ==
  IF ~IsOk(more) THEN more ELSE RingsPoints(rings, i + 1, more.val.v)

RingsPointsStep(rings, i, geoms, coords) ==
  IF ~IsOk(coords) THEN coords
  ELSE RingsPointsNext(rings, i, PointsFrom(coords.val.v, 1, geoms))

RingsPoints(rings, i, geoms) ==
  IF i > Len(rings) THEN Ok(List(geoms))
  ELSE RingsPointsStep(rings, i, geoms, RingCoords(rings[i]))

\* l = LineString(point); for coord in l.coords: ...
PointsOfLine(geoms, l) ==
  IF ~IsOk(l) THEN l ELSE PointsFrom(Coords(l.val).v, 1, geoms)

\* p = Polygon(gi['coordinates']); for coord in p.exterior.coords: ...;
\* for interior in p.interiors: for coord in interior.coords: ...
PointsOfPolygon(geoms, p) ==
  IF ~IsOk(p) THEN p
  ELSE RingsPoints(<<p.val.exterior[1]>> \o p.val.interiors[1].v, 1, geoms)

\* The branches of _from_geo_interface on gi = point.__geo_interface__
FromMapping(geoms, point, gi) ==
  IF GiIsNone(gi) THEN Raise("TypeError")
  ELSE IF gi.s = "Point" THEN AppendGeom(geoms, PointInit(<<point>>))
  ELSE IF gi.s = "LinearRing" \/ gi.s = "LineString"
  THEN PointsOfLine(geoms, LineStringInit("LineString", point))
  ELSE IF gi.s = "Polygon"
  THEN PointsOfPolygon(geoms, PolygonInit(gi.coordinates[1], None))
  ELSE Raise("ValueError")

\* MultiPoint._from_geo_interface(point), with self._geoms = geoms before the
\* call: the outcome holds self._geoms after it.
FromGeoInterface(geoms, point) == FromMapping(geoms, point, GeoInterface(point))

\* The loop of MultiPoint.__init__ over a list or tuple of points.
RECURSIVE MultiPointLoop(_, _, _)

MultiPointStep(points, i, more) ==
  IF ~IsOk(more) THEN more ELSE MultiPointLoop(points, i + 1, more.val.v)

MultiPointLoop(points, i, geoms) ==
  IF i > Len(points) THEN Ok(List(geoms))
  ELSE IF HasGeoInterface(points[i])
  THEN MultiPointStep(points, i, FromGeoInterface(geoms, points[i]))
  ELSE IF IsSeq(points[i])
  THEN MultiPointStep(points, i, AppendGeom(geoms, PointInit(<<points[i]>>)))
  ELSE Raise("ValueError")

MultiInstance(cls, geoms) == Instance(cls, None, None, None, geoms)

\* The instance of a Multi* class once its loop over the input is done.
MultiOf(cls, geoms) ==
  IF ~IsOk(geoms) THEN geoms ELSE Ok(MultiInstance(cls, geoms.val))

\* MultiPoint.__init__(points)
MultiPointInit(points) ==
  IF IsSeq(points) THEN MultiOf("MultiPoint", MultiPointLoop(points.v, 1, <<>>))
  ELSE IF HasGeoInterface(points)
  THEN MultiOf("MultiPoint", FromGeoInterface(<<>>, points))
  ELSE Raise("ValueError")

\* The sequences that list every element of the set S exactly once: the
\* orders list(set(coords)) may produce.
Orderings(S) ==
  {s \in [1..Cardinality(S) -> S] :
     \A i, j \in 1..Cardinality(S) : s[i] = s[j] => i = j}

\* coords of MultiPoint.unique(): [geom.coords for geom in self.geoms]
GeomCoords(self) ==
  [i \in 1..Len(self.geoms[1].v) |-> Coords(self.geoms[1].v[i])]

\* set(coords)
DistinctCoords(coords) == {coords[i] : i \in 1..Len(coords)}

\* unique() rebuilding the children from coords itself, set() left out.
UniqueKeepsAll(self, order) ==
  MultiOf(self.s, PointsFrom(GeomCoords(self), 1, <<>>))

\* MultiPoint.unique(), with order the order list(set(coords)) came out in:
\* the outcome, holding the instance afterwards.
Unique(self, order) == MultiOf(self.s, PointsFrom(order, 1, <<>>))

\* -------------------------------------------- MultiLineString, MultiPolygon
\* for line in lines: l = LineString(line); self._geoms.append(l)
RECURSIVE LinesFrom(_, _, _)

LinesStep(lines, i, geoms, l) ==
  IF ~IsOk(l) THEN l ELSE LinesFrom(lines, i + 1, Append(geoms, l.val))

LinesFrom(lines, i, geoms) ==
  IF i > Len(lines) THEN Ok(List(geoms))
  ELSE LinesStep(lines, i, geoms, LineStringInit("LineString", lines[i]))

\* MultiLineString.__init__, lines with the __geo_interface__ gi; a mapping
\* of any other type leaves the collection empty.
LinesFromMapping(gi) ==
  IF GiIsNone(gi) THEN Raise("TypeError")
  ELSE IF gi.s = "LinearRing" \/ gi.s = "LineString"
  THEN LinesFrom(<<gi.coordinates[1]>>, 1, <<>>)
  ELSE IF gi.s = "MultiLineString"
  THEN LinesFrom(gi.coordinates[1].v, 1, <<>>)
  ELSE Ok(List(<<>>))

\* MultiLineString.__init__(lines)
MultiLineStringInit(lines) ==
  IF IsSeq(lines) THEN MultiOf("MultiLineString", LinesFrom(lines.v, 1, <<>>))
  ELSE IF HasGeoInterface(lines)
  THEN MultiOf("MultiLineString", LinesFromMapping(GeoInterface(lines)))
  ELSE Raise("ValueError")

\* The loop of MultiPolygon.__init__ over a list or tuple of polygons.
RECURSIVE PolygonsFrom(_, _, _)

PolygonsStep(polygons, i, geoms, p) ==
  IF ~IsOk(p) THEN p ELSE PolygonsFrom(polygons, i + 1, Append(geoms, p.val))

PolygonsFrom(polygons, i, geoms) ==
  IF i > Len(polygons) THEN Ok(List(geoms))
  ELSE IF IsSeq(polygons[i]) THEN
    IF Len(polygons[i].v) < 2 THEN Raise("IndexError")
    ELSE PolygonsStep(polygons, i, geoms,
                      PolygonInit(polygons[i].v[1], polygons[i].v[2]))
  ELSE IF HasGeoInterface(polygons[i])
  THEN PolygonsStep(polygons, i, geoms, PolygonInit(polygons[i], None))
  ELSE Raise("ValueError")

\* MultiPolygon.__init__, polygons with the __geo_interface__ gi
PolygonsFromMapping(polygons, gi) ==
  IF GiIsNone(gi) THEN Raise("TypeError")
  ELSE IF gi.s = "Polygon"
  THEN PolygonsStep(<<polygons>>, 1, <<>>, PolygonInit(polygons, None))
  ELSE IF gi.s = "MultiPolygon" THEN Raise("NotImplementedError")
  ELSE Ok(List(<<>>))

\* MultiPolygon.__init__(polygons)
MultiPolygonInit(polygons) ==
  IF IsSeq(polygons) THEN MultiOf("MultiPolygon", PolygonsFrom(polygons.v, 1, <<>>))
  ELSE IF HasGeoInterface(polygons)
  THEN MultiOf("MultiPolygon", PolygonsFromMapping(polygons, GeoInterface(polygons)))
  ELSE Raise("ValueError")

\* --------------------------------------------------------------- as_shape
\* The dispatch of as_shape on gi = feature.__geo_interface__
ShapeFromMapping(gi) ==
  IF GiIsNone(gi) THEN Raise("TypeError")
  ELSE
    CASE gi.s = "Point" -> PointInit(<<gi.coordinates[1]>>)
      [] gi.s = "LineString" -> LineStringInit("LineString", gi.coordinates[1])
      [] gi.s = "LinearRing" -> LinearRingInit(gi.coordinates[1])
      [] gi.s = "Polygon" -> PolygonInit(gi.coordinates[1], None)
      [] gi.s = "MultiPoint" -> MultiPointInit(gi.coordinates[1])
      [] gi.s = "MultiLineString" -> MultiLineStringInit(gi.coordinates[1])
      [] gi.s = "MultiPolygon" -> MultiPolygonInit(gi.coordinates[1])
      [] OTHER -> Raise("NotImplementedError")

\* as_shape(feature): without the __geo_interface__ it RETURNS a TypeError
\* instance.
AsShape(feature) ==
  IF HasGeoInterface(feature) THEN ShapeFromMapping(GeoInterface(feature))
  ELSE Ok(ExcValue("TypeError"))

\* -------------------------------------------------------------------- WKT
\* str(x) of a float; the numbers of the model are whole, and every number a
\* geometry holds is a float.
FloatStr(x) == ToString(x.n) \o ".0"

\* sep.join(parts)
RECURSIVE Join(_, _)
Join(parts, sep) ==
  IF Len(parts) = 0 THEN ""
  ELSE IF Len(parts) = 1 THEN parts[1]
  ELSE parts[1] \o sep \o Join(Tail(parts), sep)

\* str(x) of a float or of a tuple of such
RECURSIVE PyStr(_)
PyStr(x) ==
  IF x.k = "num" THEN FloatStr(x)
  ELSE "(" \o Join([i \in 1..Len(x.v) |-> PyStr(x.v[i])], ", ")
           \o (IF Len(x.v) = 1 THEN "," ELSE "") \o ")"

\* s.replace(c, '')
RECURSIVE Remove(_, _)
Remove(s, c) ==
  IF s = "" THEN ""
  ELSE IF Head(s) = c THEN Remove(Tail(s), c)
  ELSE Head(s) \o Remove(Tail(s), c)

\* self._type.upper()
Upper(type) ==
  CASE type = "Point" -> "POINT"
    [] type = "LineString" -> "LINESTRING"
    [] type = "LinearRing" -> "LINEARRING"
    [] type = "Polygon" -> "POLYGON"
    [] type = "MultiPoint" -> "MULTIPOINT"
    [] type = "MultiLineString" -> "MULTILINESTRING"
    [] type = "MultiPolygon" -> "MULTIPOLYGON"

\* _Feature.to_wkt(), the one Point inherits
FeatureToWkt(self) ==
  Ok(Str(Upper(self.s) \o " "
           \o Remove(PyStr(Tuple(self.coordinates[1].v)), ",")))

\* ' '.join([str(x) for x in c])
PointText(c) == Join([j \in 1..Len(c.v) |-> PyStr(c.v[j])], " ")

\* LineString.to_wkt() once self.coords is read, with outcome coords; a
\* coordinate that is no sequence cannot be iterated.
LineToWkt(self, coords) ==
  IF ~IsOk(coords) THEN coords
  ELSE IF \E i \in 1..Len(coords.val.v) : ~IsSeq(coords.val.v[i])
  THEN Raise("TypeError")
  ELSE Ok(Str(Upper(self.s) \o " ("
                \o Join([i \in 1..Len(coords.val.v) |-> PointText(coords.val.v[i])],
                        ", ")
                \o ")"))

\* self.to_wkt()
ToWkt(self) ==
  CASE self.s = "Point" -> FeatureToWkt(self)
    [] self.s = "LineString" -> LineToWkt(self, Ok(Coords(self)))
    [] self.s = "LinearRing" -> LineToWkt(self, RingCoords(self))
    [] OTHER -> Raise("NotImplementedError")

\* s.strip(); the blank is the only whitespace of the model.
RECURSIVE Strip(_)
Strip(s) ==
  IF s = "" THEN ""
  ELSE IF Head(s) = " " THEN Strip(Tail(s))
  ELSE IF SubSeq(s, Len(s), Len(s)) = " " THEN Strip(SubSeq(s, 1, Len(s) - 1))
  ELSE s

\* s.startswith(prefix)
StartsWith(s, prefix) ==
  Len(s) >= Len(prefix) /\ SubSeq(s, 1, Len(prefix)) = prefix

\* s[start : stop] for start >= 0; a negative stop counts from the end.
Slice(s, start, stop) ==
  SubSeq(s, start + 1,
         IF stop < 0 THEN (IF Len(s) + stop < 0 THEN 0 ELSE Len(s) + stop)
         ELSE IF stop > Len(s) THEN Len(s) ELSE stop)

\* s.split(c): the pieces between the occurrences of c, at least one.
RECURSIVE Split(_, _)
Split(s, c) ==
  IF Find(s, c) = -1 THEN <<s>>
  ELSE <<SubSeq(s, 1, Find(s, c))>> \o Split(SubSeq(s, Find(s, c) + 2, Len(s)), c)

\* s.split(): the words between runs of blanks, none for a blank string.
RECURSIVE Words(_)
Words(s) ==
  IF s = "" THEN <<>>
  ELSE IF Head(s) = " " THEN Words(Tail(s))
  ELSE IF Find(s, " ") = -1 THEN <<s>>
  ELSE <<SubSeq(s, 1, Find(s, " "))>>
         \o Words(SubSeq(s, Find(s, " ") + 2, Len(s)))

\* the list of the strings parts
StrList(parts) == List([i \in 1..Len(parts) |-> Str(parts[i])])

\* wkt[wkt.find('(') + 1 : wkt.find(')')]
Inner(wkt) == Slice(wkt, Find(wkt, "(") + 1, Find(wkt, ")"))

\* [c.split() for c in coords]
LinePoints(coords) == List([i \in 1..Len(coords) |-> StrList(Words(coords[i]))])

\* from_wkt once geo_str is stripped
FromStripped(wkt) ==
  IF StartsWith(wkt, "POINT") THEN PointInit(<<StrList(Words(Inner(wkt)))>>)
  ELSE IF StartsWith(wkt, "LINESTRING")
  THEN LineStringInit("LineString", LinePoints(Split(Inner(wkt), ",")))
  ELSE IF StartsWith(wkt, "LINEARRING")
  THEN LinearRingInit(LinePoints(Split(Inner(wkt), ",")))
  ELSE Raise("NotImplementedError")

\* from_wkt(geo_str)
FromWkt(geo_str) == FromStripped(Strip(geo_str.s))

\* ------------------------------------------------------------ the inputs
\* The sequences of at most n elements of S.
SeqsUpTo(S, n) == UNION {[1..m -> S] : m \in 0..n}

Nums == {Num(n) : n \in 0..MaxVal}

\* The values given as coordinates: numbers, a numeric string, and a string
\* float() rejects.
Scalars == Nums \cup {Str("1"), Str("x")}

\* The positional arguments of a Point call on raw data: the values
\* themselves, or one list or tuple of them.
PointArgs ==
  SeqsUpTo(Scalars, MaxArgs)
    \cup {<<List(s)>> : s \in SeqsUpTo(Scalars, MaxArgs)}
    \cup {<<Tuple(s)>> : s \in SeqsUpTo(Scalars, MaxArgs)}

\* The points a raw coordinate sequence is made of: 2D and 3D points, as a
\* list or a tuple, and one of a length Point rejects.
PointIn ==
  {List(<<Num(0), Num(0)>>), Tuple(<<Num(1), Num(0)>>),
   List(<<Num(0), Num(0), Num(1)>>), Tuple(<<Num(0)>>)}

\* The raw arguments of LineString, LinearRing, MultiPoint and of the coords
\* setters.
LineIn ==
  {List(s) : s \in SeqsUpTo(PointIn, MaxLen)}
    \cup {Tuple(s) : s \in SeqsUpTo(PointIn, 1)}
    \cup {None}

\* The rings a holes argument is made of.
RingIn ==
  {List(<<List(<<Num(0), Num(0)>>), Tuple(<<Num(1), Num(0)>>)>>),
   Tuple(<<Tuple(<<Num(1), Num(0)>>), Tuple(<<Num(0), Num(0)>>),
           Tuple(<<Num(1), Num(0)>>)>>)}

HolesIn == {List(s) : s \in SeqsUpTo(RingIn, MaxHoles)} \cup {None}

\* The raw shells: a flat ring, or the shell and the holes as one pair.
ShellIn ==
  LineIn \cup {Tuple(<<r, h>>) : r \in RingIn, h \in HolesIn \ {None}}

\* The values without the __geo_interface__ given to as_shape.
PlainIn == {None, Num(0), List(<<Num(0), Num(0)>>)}

\* The texts given to from_wkt as they are: well-formed ones, with and
\* without surrounding blanks, a kind from_wkt does not parse, and ones with
\* a parenthesis or a coordinate missing.
WktIn ==
  {Str("POINT (1 0)"), Str("  POINT(0 1 1) "), Str("LINESTRING (0 0, 1 0, 1 1)"),
   Str("LINEARRING (0 0, 1 0)"), Str("POLYGON ((0 0, 1 0))"), Str("POINT 1 0"),
   Str("POINT (1 0"), Str("LINESTRING (0 0,, 1 0)"), Str("")}

\* The caller builds from raw data while it holds no geometry, and from the
\* geometry it holds afterwards.
From(raw) == IF obj = None THEN raw ELSE {obj}

Class(x) == IF x.k = "obj" THEN x.s ELSE ""

\* ------------------------------------------------------------ the actions
\* last is the call the caller made last and has not yet moved on from: the
\* operation, its arguments and its outcome.
Call(op, args, res) == [op |-> op, args |-> args, res |-> res]

NoCall == Call("none", <<>>, Ok(None))

\* g = C(...): g is bound to the new instance unless the constructor raised.
Construct(op, args, res) ==
  /\ last = NoCall
  /\ last' = Call(op, args, res)
  /\ obj' = IF IsOk(res) THEN res.val ELSE obj

\* g.coords = coordinates: set is the setter's outcome [exc, self].
Assign(op, coordinates, set) ==
  /\ last = NoCall
  /\ last' = Call(op, <<obj, coordinates>>, [exc |-> set.exc, val |-> None])
  /\ obj' = set.self

Init ==
  /\ obj = None
  /\ last = NoCall

NewPoint ==
  \E args \in IF obj = None THEN PointArgs ELSE {<<obj>>} :
    Construct("Point", args, PointInit(args))

NewLineString ==
  \E c \in From(LineIn) :
    Construct("LineString", <<c>>, LineStringInit("LineString", c))

NewLinearRing ==
  \E c \in From(LineIn) : Construct("LinearRing", <<c>>, LinearRingInit(c))

NewPolygon ==
  \E shell \in From(ShellIn), holes \in HolesIn :
    Construct("Polygon", <<shell, holes>>, PolygonInit(shell, holes))

NewMultiPoint ==
  \E points \in From(LineIn) \cup {List(<<p, obj>>) : p \in PointIn}
                  \cup {List(<<obj>>)} :
    /\ obj = None => points \in LineIn
    /\ Construct("MultiPoint", <<points>>, MultiPointInit(points))

SetPointCoords ==
  /\ Class(obj) = "Point"
  /\ \E s \in SeqsUpTo(Scalars, MaxArgs) :
       \E c \in {List(s), Tuple(s), None} :
         Assign("Point.coords", c, PointSetCoords(obj, c))

SetLineStringCoords ==
  /\ Class(obj) = "LineString"
  /\ \E c \in LineIn : Assign("LineString.coords", c, LineStringSetCoords(obj, c))

SetLinearRingCoords ==
  /\ Class(obj) = "LinearRing"
  /\ \E c \in LineIn : Assign("LinearRing.coords", c, LinearRingSetCoords(obj, c))

CallUnique ==
  /\ Class(obj) = "MultiPoint"
  /\ last = NoCall
  /\ \E order \in Orderings(DistinctCoords(GeomCoords(obj))) :
       /\ last' = Call("unique", <<obj>>, Ok(None))
       /\ obj' = Unique(obj, order).val

CallAsShape ==
  /\ last = NoCall
  /\ \E feature \in From(PlainIn) :
       /\ last' = Call("as_shape", <<feature>>, AsShape(feature))
       /\ UNCHANGED obj

\* text = g.to_wkt()
CallToWkt ==
  /\ last = NoCall
  /\ obj # None
  /\ last' = Call("to_wkt", <<obj>>, ToWkt(obj))
  /\ UNCHANGED obj

\* from_wkt(text): of the text to_wkt has just returned, from_wkt(g.to_wkt()),
\* or of a text as it is while the caller holds no geometry.
CallFromWkt ==
  /\ \E geo_str \in IF last.op = "to_wkt" /\ IsOk(last.res) THEN {last.res.val}
                     ELSE IF last = NoCall /\ obj = None THEN WktIn
                     ELSE {} :
       last' = Call("from_wkt", <<geo_str>>, FromWkt(geo_str))
  /\ UNCHANGED obj

\* The caller moves on from the call it made.
Return ==
  /\ last # NoCall
  /\ last' = NoCall
  /\ UNCHANGED obj

\* del g
Discard ==
  /\ last = NoCall
  /\ obj # None
  /\ obj' = None
  /\ UNCHANGED last

Next ==
  \/ NewPoint
  \/ NewLineString
  \/ NewLinearRing
  \/ NewPolygon
  \/ NewMultiPoint
  \/ SetPointCoords
  \/ SetLineStringCoords
  \/ SetLinearRingCoords
  \/ CallUnique
  \/ CallAsShape
  \/ CallToWkt
  \/ CallFromWkt
  \/ Return
  \/ Discard

Spec == Init /\ [][Next]_vars

\* ------------------------------------------------------------- the claims
\* The type of the structural mapping of x; "" when x has none.
MappingType(x) ==
  IF HasGeoInterface(x) /\ GeoInterface(x).k = "dict"
  THEN GeoInterface(x).s ELSE ""

\* ring.coordinates[0] == ring.coordinates[-1]
Closed(ring) ==
  /\ Len(ring.coordinates[1].v) > 0
  /\ ring.coordinates[1].v[1] = ring.coordinates[1].v[Len(ring.coordinates[1].v)]

\* The coordinate tuples of the children of a MultiPoint, child by child.
ChildCoords(mp) ==
  [i \in 1..Len(mp.geoms[1].v) |-> Tuple(mp.geoms[1].v[i].coordinates[1].v)]

\* The coordinates of the interior rings of a Polygon, ring by ring.
InteriorCoords(p) ==
  [i \in 1..Len(p.interiors[1].v) |-> Tuple(p.interiors[1].v[i].coordinates[1].v)]

\* r holds at least one point: a raw sequence, or an object with coordinates.
NonEmpty(r) ==
  \/ IsSeq(r) /\ Len(r.v) > 0
  \/ HasGeoInterface(r) /\ Class(r) \in {"LineString", "LinearRing"}
       /\ Len(r.coordinates[1].v) > 0

\* C1: LinearRing(r) succeeds and is closed for every r that LineString
\* accepts, open or closed, a raw sequence or a LineString or LinearRing
\* object; a successful replacement through the coords setter leaves the
\* ring closed; no LinearRing holds an open sequence.  Stated for the r that
\* hold at least one point.
C1_RingAlwaysClosed ==
  /\ (last.op = "LinearRing" /\ NonEmpty(last.args[1])
        /\ IsOk(LineStringInit("LineString", last.args[1])))
       => (IsOk(last.res) /\ Closed(last.res.val))
  /\ (last.op = "LinearRing.coords" /\ IsOk(last.res)) => Closed(obj)
  /\ (Class(obj) = "LinearRing" /\ Len(obj.coordinates[1].v) > 0) => Closed(obj)

\* A list or tuple of 2 or 3 values float() accepts.
ValidPoint(e) ==
  /\ IsSeq(e)
  /\ Len(e.v) \in {2, 3}
  /\ \A i \in 1..Len(e.v) : IsOk(PyFloat(e.v[i]))

\* A raw sequence of points, each one valid by itself.
RawLine(c) == IsSeq(c) /\ \A i \in 1..Len(c.v) : ValidPoint(c.v[i])

\* Two consecutive points of c have different lengths.
MixedAt(c) == \E i \in 1..(Len(c.v) - 1) : Len(c.v[i].v) # Len(c.v[i + 1].v)

\* The coordinates argument of the LineString call or coords replacement
\* made last.
LineArg == IF last.op = "LineString" THEN last.args[1] ELSE last.args[2]

\* C2: LineString(c) and line.coords = c, for a raw sequence c of points that
\* are each valid, raise ValueError when two consecutive points differ in
\* length and succeed when all have the same length; in particular the first
\* point is never compared against the unset previous length.
C2_MixedDimensionsRejected ==
  (last.op \in {"LineString", "LineString.coords"} /\ RawLine(LineArg)) =>
    /\ MixedAt(LineArg) => last.res.exc = "ValueError"
    /\ ~MixedAt(LineArg) => IsOk(last.res)

C2_Witness ==
  /\ last.op = "LineString.coords"
  /\ RawLine(LineArg)
  /\ Len(LineArg.v) = 3
  /\ Len(LineArg.v[1].v) = Len(LineArg.v[2].v)
  /\ Len(LineArg.v[2].v) # Len(LineArg.v[3].v)
  /\ last.res.exc = "ValueError"

\* Every element of s is a number or a string float() accepts.
Coercible(s) ==
  \A i \in 1..Len(s) : s[i].k \in {"num", "str"} /\ IsOk(PyFloat(s[i]))

\* tuple(float(v) for v in s)
Floats(s) == Tuple([i \in 1..Len(s) |-> PyFloat(s[i]).val])

\* The three accepted shapes of the arguments of Point.
PointFromSequence(args) ==
  Len(args) = 1 /\ IsSeq(args[1]) /\ Len(args[1].v) \in {2, 3}
PointFromValues(args) ==
  Len(args) \in {2, 3} /\ \A i \in 1..Len(args) : args[i].k \in {"num", "str"}
PointFromMapping(args) ==
  Len(args) = 1 /\ MappingType(args[1]) = "Point"

\* C3: Point succeeds exactly for one list or tuple of 2 or 3 values, for 2
\* or 3 positional values, and for one object whose mapping has type Point;
\* from a sequence or from values the coordinates are the inputs coerced to
\* float, in order.  One sequence of another length raises TypeError, a
\* mapping object of another type raises TypeError, no value or more than
\* three raise ValueError.
C3_PointConstruction ==
  last.op = "Point" =>
    /\ (PointFromSequence(last.args) /\ Coercible(last.args[1].v)) =>
         (IsOk(last.res) /\ Coords(last.res.val) = Floats(last.args[1].v))
    /\ (PointFromValues(last.args) /\ Coercible(last.args)) =>
         (IsOk(last.res) /\ Coords(last.res.val) = Floats(last.args))
    /\ PointFromMapping(last.args) => IsOk(last.res)
    /\ IsOk(last.res) =>
         (PointFromSequence(last.args) \/ PointFromValues(last.args)
            \/ PointFromMapping(last.args))
    /\ (Len(last.args) = 1 /\ IsSeq(last.args[1])
          /\ Len(last.args[1].v) \notin {2, 3}) => last.res.exc = "TypeError"
    /\ (Len(last.args) = 1 /\ HasGeoInterface(last.args[1])
          /\ MappingType(last.args[1]) # "Point") => last.res.exc = "TypeError"
    /\ (Len(last.args) = 0 \/ Len(last.args) > 3) => last.res.exc = "ValueError"

C3_Witness ==
  /\ last.op = "Point"
  /\ PointFromSequence(last.args)
  /\ Len(last.args[1].v) = 3
  /\ last.args[1].v[1] = Str("1")
  /\ IsOk(last.res)
  /\ Coords(last.res.val).v[1] = Num(1)

\* C4: as_shape(g), for a Point, LineString or LinearRing g, returns a
\* geometry of the same kind with the same coordinates.
C4_SimpleRoundTrip ==
  (last.op = "as_shape"
     /\ Class(last.args[1]) \in {"Point", "LineString", "LinearRing"}) =>
    /\ IsOk(last.res)
    /\ Class(last.res.val) = Class(last.args[1])
    /\ Coords(last.res.val) = Coords(last.args[1])

\* C5: as_shape(g), for a Polygon g with zero or more holes, returns a
\* Polygon with the same exterior coordinates and the same interiors, ring
\* for ring.
C5_PolygonRoundTrip ==
  (last.op = "as_shape" /\ Class(last.args[1]) = "Polygon") =>
    /\ IsOk(last.res)
    /\ Class(last.res.val) = "Polygon"
    /\ Coords(last.res.val.exterior[1]) = Coords(last.args[1].exterior[1])
    /\ InteriorCoords(last.res.val) = InteriorCoords(last.args[1])

\* C6: as_shape on an object without the structural mapping raises; it does
\* not return normally with an error value as its result.
C6_AsShapeRaises ==
  (last.op = "as_shape" /\ ~HasGeoInterface(last.args[1])) => ~IsOk(last.res)

\* C7: after unique() no two children of the MultiPoint have the same
\* coordinate tuple, there are no more children than before, and the set of
\* coordinate tuples is the set there was before.
C7_UniquePostcondition ==
  last.op = "unique" =>
    /\ \A i, j \in 1..Len(ChildCoords(obj)) :
         ChildCoords(obj)[i] = ChildCoords(obj)[j] => i = j
    /\ Len(ChildCoords(obj)) <= Len(ChildCoords(last.args[1]))
    /\ {ChildCoords(obj)[i] : i \in 1..Len(ChildCoords(obj))}
         = {ChildCoords(last.args[1])[i] : i \in 1..Len(ChildCoords(last.args[1]))}

C7_Witness ==
  /\ last.op = "unique"
  /\ Len(ChildCoords(obj)) = 2
  /\ Len(ChildCoords(last.args[1])) = 3

\* C8: the mapping of a MultiPoint has type "MultiPoint" and, as its
\* coordinates, the full coordinate tuple of every child in order, so that
\* as_shape on it reproduces the children.
C8_MultiPointMapping ==
  /\ Class(obj) = "MultiPoint" =>
       /\ GeoInterface(obj).s = "MultiPoint"
       /\ GeoInterface(obj).coordinates[1] = Tuple(ChildCoords(obj))
  /\ (last.op = "as_shape" /\ Class(last.args[1]) = "MultiPoint") =>
       /\ IsOk(last.res)
       /\ ChildCoords(last.res.val) = ChildCoords(last.args[1])

\* C9: Polygon(shell, holes) with shell an object whose mapping has type
\* Polygon takes the first ring of the mapping as the exterior and the rings
\* after it as the interiors, whatever holes is.
C9_HolesIgnored ==
  (last.op = "Polygon" /\ MappingType(last.args[1]) = "Polygon") =>
    /\ IsOk(last.res)
    /\ Coords(last.res.val.exterior[1])
         = GeoInterface(last.args[1]).coordinates[1].v[1]
    /\ InteriorCoords(last.res.val)
         = Tail(GeoInterface(last.args[1]).coordinates[1].v)

\* The vertices of the rings, ring after ring.
RECURSIVE Vertices(_)
Vertices(rings) ==
  IF rings = <<>> THEN <<>> ELSE Head(rings).v \o Vertices(Tail(rings))

\* C10: MultiPoint from a Polygon object, alone or as the one element of a
\* sequence, succeeds with one child per vertex of the exterior and then of
\* each interior ring.
C10_MultiPointFromPolygon ==
  /\ (last.op = "MultiPoint" /\ Class(last.args[1]) = "Polygon") =>
       /\ IsOk(last.res)
       /\ ChildCoords(last.res.val)
            = Vertices(GeoInterface(last.args[1]).coordinates[1].v)
  /\ (last.op = "MultiPoint" /\ IsSeq(last.args[1]) /\ Len(last.args[1].v) = 1
        /\ Class(last.args[1].v[1]) = "Polygon") =>
       /\ IsOk(last.res)
       /\ ChildCoords(last.res.val)
            = Vertices(GeoInterface(last.args[1].v[1]).coordinates[1].v)

\* The text "<TYPE> (x1 y1[ z1], x2 y2[ z2], ...)" of the points, each a
\* sequence of floats, under the type name.
WktText(type, points) ==
  Upper(type) \o " ("
    \o Join([i \in 1..Len(points) |->
               Join([j \in 1..Len(points[i].v) |-> FloatStr(points[i].v[j])], " ")],
            ", ")
    \o ")"

\* The points of a Point, LineString or LinearRing: the one point of a
\* Point, the coordinate tuples of a line.
PointsOf(g) ==
  IF Class(g) = "Point" THEN <<Coords(g)>> ELSE g.coordinates[1].v

\* C11: for every Point, LineString or LinearRing g, a LineString of no
\* coordinates included, g.to_wkt() is the text "<TYPE> (x1 y1[ z1], ...)"
\* with the upper-cased type name, and from_wkt of that text succeeds and
\* returns a geometry of the same kind with the coordinates of g.
C11_WktRoundTrip ==
  /\ (last.op = "to_wkt"
        /\ Class(last.args[1]) \in {"Point", "LineString", "LinearRing"}) =>
       /\ IsOk(last.res)
       /\ last.res.val = Str(WktText(Class(last.args[1]), PointsOf(last.args[1])))
  /\ (last.op = "from_wkt"
        /\ Class(obj) \in {"Point", "LineString", "LinearRing"}
        /\ last.args[1] = Str(WktText(Class(obj), PointsOf(obj)))) =>
       /\ IsOk(last.res)
       /\ Class(last.res.val) = Class(obj)
       /\ Coords(last.res.val) = Coords(obj)

\* The outcome of reading g.coords.
ReadCoords(g) ==
  IF Class(g) = "LinearRing" THEN RingCoords(g) ELSE Ok(Coords(g))

\* C12: when the coords setter of a Point, LineString or LinearRing raises,
\* whatever the argument (no list or tuple, a point of invalid length, mixed
\* dimensions, an empty sequence given to a LinearRing), reading the
\* coordinates after the call gives what reading them before it gave.
C12_FailedSetLeavesCoords ==
  (last.op \in {"Point.coords", "LineString.coords", "LinearRing.coords"}
     /\ last.res.exc # "none") =>
    ReadCoords(obj) = ReadCoords(last.args[1])

====
